---- MODULE Spec2Model ----
(***************************************************************************)
(* Model of the chunking and vector-retrieval core of the RAG document     *)
(* assistant:                                                              *)
(*   backend/app/services/local_vector_store.py  (LocalVectorStore)        *)
(*   backend/app/services/chunking_service.py    (ChunkingService)         *)
(*   backend/app/services/rag_service.py         (RAGService)              *)
(*   backend/app/services/gemini_client.py       (GeminiClient)            *)
(*   backend/app/services/vector_store.py        (VectorStore)             *)
(*                                                                         *)
(* Spec      : the LocalVectorStore state machine (memory + two disk       *)
(*             artifacts), one action per public method, each call         *)
(*             followed by the caller taking the returned value.           *)
(* ChunkSpec : ChunkingService.chunk_text applied to every text over a     *)
(*             small alphabet, for every valid (chunk_size, overlap_size). *)
(* ConfigSpec: the same for every pair (chunk_size, overlap_size) the       *)
(*             constructor accepts.                                        *)
(* IngestSpec: RAGService.process_document, one step per call to the       *)
(*             embedding provider and to the database.                     *)
(* ConcurrentSpec: two callers of one LocalVectorStore whose calls overlap, *)
(*             one step per statement that touches the tables, the index   *)
(*             or a file.                                                  *)
(* CleanSpec : ChunkingService._clean_text applied to every raw text over  *)
(*             a letter, a blank, a tab and a newline.                     *)
(* LoopSpec  : chunk_text followed through the while loop of               *)
(*             _create_chunks_with_overlap, one iteration per step, for    *)
(*             every pair of sizes, zero and negative ones included.       *)
(*                                                                         *)
(* Positions are 1-based here (TLA+ sequences) where FAISS and Python are  *)
(* 0-based; a Python dict is a sequence of entries in insertion order.     *)
(* Timestamps (created_at) and log lines are left out: no method reads     *)
(* them.                                                                   *)
(***************************************************************************)
EXTENDS Integers, Sequences, FiniteSets, TLC

VARIABLES
    index,          \* self._index: [exists, vecs]; exists = FALSE is None
    metadata,       \* self._metadata: chunk_id -> metadata, in insertion order
    doc_chunks,     \* self._doc_chunks: document_id -> list of chunk_ids
    disk_index,     \* the file index.faiss
    disk_metadata,  \* the file metadata.json
    next_id,        \* the next uuid4 (chunk ids are fresh: 1, 2, ...)
    added,          \* history: chunk_id -> what store_document_chunks was given
    deleted,        \* history: documents deleted on this instance, not re-added
    just_added,     \* history: chunk ids stored by the call that just returned
    ret,            \* the call in progress and what it returns to its caller
    chunker,        \* a ChunkingService, its input text and its output
    ingest,         \* RAGService: its components, the process_document call
                    \* in progress and the tables "documents" and
                    \* "document_chunks"
    callers         \* callers that run on one LocalVectorStore at the same
                    \* time: where each is in its call

store_vars == <<index, metadata, doc_chunks, disk_index, disk_metadata,
                next_id, added, deleted, just_added, ret>>
vars == <<index, metadata, doc_chunks, disk_index, disk_metadata,
          next_id, added, deleted, just_added, ret, chunker, ingest, callers>>

----------------------------------------------------------------------------
(* Bounds of the model.                                                    *)

\* chunk ids (uuid4 values) issued over one run
MaxChunks == 2
\* chunks in one store_document_chunks call
MaxBatch == 2
\* LocalVectorStore(embedding_dim=...): the dimension D of the index
embedding_dim == 1

\* constants.py
N_RESULTS == 5

Docs == {"d1", "d2"}
\* the value of a "document_id" key: a document id or Python's None
NoneDoc == "None"
\* a chunk's free-form metadata map has no "document_id" key
NoKey == "nokey"
\* the values tried for that key: absent, None, and the id of a document
MetaDocs == {NoKey, NoneDoc, "d1"}

\* chunk texts and the embedding the provider returns for each
Texts == {<<"x">>, <<"y", "y">>}
Coord(text) == IF text = <<"x">> THEN 0 ELSE 20
Embed(text, dim) == [i \in 1..dim |-> Coord(text)]

\* query embeddings: every coordinate the same value of QueryCoords
QueryCoords == {0, 20}
Queries == {[i \in 1..embedding_dim |-> c] : c \in QueryCoords}

\* similarity thresholds as fractions <<numerator, denominator>>:
\* 0 and MINIMUM_SCORE = 0.3 (constants.py)
MINIMUM_SCORE == <<3, 10>>
Thresholds == {<<0, 1>>, MINIMUM_SCORE}
Limits == {1, N_RESULTS}

\* document_ids argument: None (given = FALSE) or a list of ids
Filters == {[given |-> FALSE, ids |-> {}]} \cup
           {[given |-> TRUE, ids |-> s] : s \in {{}, {"d1"}, {"d2"}}}

\* longest input text of chunk_text, in characters
MaxTextLen == 6
\* largest chunk_size a ChunkingService is constructed with
MaxChunkSize == 4

\* characters of the input texts: a lower-case letter, an upper-case letter,
\* a sentence terminator and a blank
Alphabet == {"a", "A", ".", " "}
\* what \s of re and str.strip() take for whitespace
IsSpace(c) == c \in {" ", "\t", "\n"}
IsTerminator(c) == c \in {".", "!", "?"}
IsUpper(c) == c = "A"
InputTexts == UNION {[1..n -> Alphabet] : n \in 0..MaxTextLen}

\* how far below zero the chunk_size and overlap_size go of a ChunkingService
\* whose loop is followed step by step: zero and negative sizes are integers
MaxBelowZero == 1

\* longest raw text handed to _clean_text alone, in characters
MaxRawLen == 5
\* characters of the raw texts: a letter, a blank, a tab and a newline
RawAlphabet == {"a", " ", "\t", "\n"}
RawTexts == UNION {[1..n -> RawAlphabet] : n \in 0..MaxRawLen}

\* process_document calls over one run
MaxUploads == 2
\* texts per embedding batch: 100 in generate_embeddings, scaled to the
\* batches of the model
batch_size == 1

\* how a disk write of _save_index can fail: faiss.write_index raises and
\* leaves the file as it was, or json.dump raises after open(..., "w")
Faults == {"none", "index", "meta_write"}

----------------------------------------------------------------------------
(* Helpers.                                                                *)

Min(a, b) == IF a < b THEN a ELSE b
Max(a, b) == IF a > b THEN a ELSE b

Range(s) == {s[i] : i \in 1..Len(s)}

NoneIndex == [exists |-> FALSE, vecs |-> <<>>]
EmptyDocChunks == [d \in Docs |-> <<>>]
Idle == [op |-> "idle"]

\* faiss.IndexFlatL2: squared Euclidean distance
RECURSIVE SqDistFrom(_, _, _)
SqDistFrom(q, v, i) ==
    IF i > Len(q) THEN 0
    ELSE (q[i] - v[i]) * (q[i] - v[i]) + SqDistFrom(q, v, i + 1)

SqDist(q, v) == SqDistFrom(q, v, 1)

\* similarity_score = 1.0 / (1.0 + distance / 100.0), as the fraction
\* 100 / (100 + distance)
Similarity(distance) == <<100, 100 + distance>>

\* a >= b for fractions with positive denominators
FracGE(a, b) == a[1] * b[2] >= b[1] * a[2]

----------------------------------------------------------------------------
(* Persistence.                                                            *)

\* what _save_index leaves in index.faiss
SavedIndexFile(idx, fault, old) ==
    IF fault = "index" THEN old
    ELSE IF idx.exists THEN [exists |-> TRUE, vecs |-> idx.vecs]
    ELSE old

\* what _save_index leaves in metadata.json; a write that fails after
\* open(..., "w") leaves a truncated file
SavedMetadataFile(md, dc, fault, old) ==
    CASE fault = "none" -> [state |-> "ok", metadata |-> md, doc_chunks |-> dc]
      [] fault = "meta_write" -> [state |-> "corrupt", metadata |-> <<>>,
                                  doc_chunks |-> EmptyDocChunks]
      [] OTHER -> old

AbsentMetadataFile == [state |-> "absent", metadata |-> <<>>,
                       doc_chunks |-> EmptyDocChunks]

\* LoadedMetadata when the keys come back in another order
LoadedMetadataReordered(dm) ==
    IF dm.state = "ok"
    THEN [i \in 1..Len(dm.metadata) |-> dm.metadata[Len(dm.metadata) + 1 - i]]
    ELSE <<>>

\* _load_index: the in-memory tables of a store constructed on the directory
LoadedIndex(di) == IF di.exists THEN [exists |-> TRUE, vecs |-> di.vecs]
                   ELSE NoneIndex
LoadedMetadata(dm) == IF dm.state = "ok" THEN dm.metadata ELSE <<>>
LoadedDocChunks(dm) == IF dm.state = "ok" THEN dm.doc_chunks ELSE EmptyDocChunks

----------------------------------------------------------------------------
(* store_document_chunks                                                   *)

\* np.array(embeddings).astype("float32") needs rows of one length
Uniform(embeddings) ==
    \A i, j \in 1..Len(embeddings) : Len(embeddings[i]) = Len(embeddings[j])

\* the metadata entry written for one chunk: the chunk's own metadata map is
\* unpacked last, so its "document_id" key replaces the argument
MetadataEntry(chunk_id, document_id, chunk) ==
    [chunk_id |-> chunk_id,
     document_id |-> IF chunk.metadata = NoKey THEN document_id
                     ELSE chunk.metadata,
     chunk_index |-> chunk.chunk_index,
     chunk_text |-> chunk.chunk_text]

\* the loop over zip(chunks, embeddings): one fresh chunk_id per pair
NewEntries(document_id, chunks, embeddings, first_id) ==
    [i \in 1..Min(Len(chunks), Len(embeddings)) |->
        MetadataEntry(first_id + i - 1, document_id, chunks[i])]

NewHistory(document_id, chunks, embeddings) ==
    [i \in 1..Min(Len(chunks), Len(embeddings)) |->
        [embedding |-> embeddings[i], document_id |-> document_id]]

store_document_chunks(document_id, chunks, embeddings, fault) ==
    /\ ret = Idle
    /\ next_id + Min(Len(chunks), Len(embeddings)) <= MaxChunks + 1
    /\ IF chunks = <<>>
       THEN \* "if not chunks: return True"
            /\ ret' = [op |-> "store", document_id |-> document_id,
                       outcome |-> "True", fault |-> "none", n |-> 0]
            /\ just_added' = {}
            /\ UNCHANGED <<index, metadata, doc_chunks, disk_index,
                           disk_metadata, next_id, added, deleted>>
       ELSE IF ~Uniform(embeddings)
       THEN \* np.array raises before anything is touched
            /\ ret' = [op |-> "store", document_id |-> document_id,
                       outcome |-> "raise", fault |-> "none", n |-> 0]
            /\ just_added' = {}
            /\ UNCHANGED <<index, metadata, doc_chunks, disk_index,
                           disk_metadata, next_id, added, deleted>>
       ELSE LET n == Min(Len(chunks), Len(embeddings))
                entries == NewEntries(document_id, chunks, embeddings, next_id)
                ids == [i \in 1..n |-> next_id + i - 1]
                md == metadata \o entries
                dc == [doc_chunks EXCEPT ![document_id] = @ \o ids]
                \* faiss add() asserts the row length against the index's d
                fits == Len(embeddings[1]) = embedding_dim
                idx == IF fits
                       THEN [exists |-> TRUE, vecs |-> index.vecs \o embeddings]
                       ELSE [exists |-> TRUE, vecs |-> index.vecs]
            IN  /\ metadata' = md
                /\ doc_chunks' = dc
                /\ index' = idx
                /\ next_id' = next_id + n
                /\ added' = added \o NewHistory(document_id, chunks, embeddings)
                /\ deleted' = deleted \ {document_id}
                /\ IF fits
                   THEN /\ disk_index' = SavedIndexFile(idx, fault, disk_index)
                        /\ disk_metadata' =
                               SavedMetadataFile(md, dc, fault, disk_metadata)
                        /\ just_added' = Range(ids)
                        /\ ret' = [op |-> "store", document_id |-> document_id,
                                   outcome |-> "True", fault |-> fault, n |-> n]
                   ELSE /\ UNCHANGED <<disk_index, disk_metadata>>
                        /\ just_added' = {}
                        /\ ret' = [op |-> "store", document_id |-> document_id,
                                   outcome |-> "raise", fault |-> "none", n |-> n]
    /\ UNCHANGED <<chunker, ingest, callers>>

----------------------------------------------------------------------------
(* search_similar_chunks                                                   *)

\* "if limit > self._index.ntotal: limit = self._index.ntotal" with the
\* condition dropped
ClampedLimitToTotal(limit, ntotal) == ntotal

\* "if limit > self._index.ntotal: limit = self._index.ntotal"
ClampedLimit(limit, ntotal) == IF limit > ntotal THEN ntotal ELSE limit

\* TopK when the k nearest come back in any order
TopKUnordered(vecs, q, k) ==
    {s \in [1..k -> 1..Len(vecs)] :
        /\ \A i, j \in 1..k : i # j => s[i] # s[j]
        /\ \A p \in 1..Len(vecs) :
              (\A i \in 1..k : s[i] # p) =>
                  \A i \in 1..k : SqDist(q, vecs[s[i]]) <= SqDist(q, vecs[p])}

\* self._index.search(query, k): the positions of the k nearest vectors,
\* nearest first; the order among equal distances is FAISS's choice
TopK(vecs, q, k) ==
    {s \in [1..k -> 1..Len(vecs)] :
        /\ \A i, j \in 1..k : i # j => s[i] # s[j]
        /\ \A i, j \in 1..k :
              i < j => SqDist(q, vecs[s[i]]) <= SqDist(q, vecs[s[j]])
        /\ \A p \in 1..Len(vecs) :
              (\A i \in 1..k : s[i] # p) =>
                  \A i \in 1..k : SqDist(q, vecs[s[i]]) <= SqDist(q, vecs[p])}

\* ExcludedByFilter when the membership test is missing
ExcludedByFilterNever(document_ids, chunk_doc_id) == FALSE

\* "if document_ids and chunk_doc_id not in document_ids: continue"
ExcludedByFilter(document_ids, chunk_doc_id) ==
    /\ document_ids.given
    /\ document_ids.ids # {}
    /\ chunk_doc_id \notin document_ids.ids

\* the loop over zip(distances[0], indices[0]), from hit i on
RECURSIVE SearchLoop(_, _, _, _, _, _, _)
SearchLoop(vecs, md, hits, i, q, document_ids, similarity_threshold) ==
    IF i > Len(hits) THEN <<>>
    ELSE LET idx == hits[i]
             rest == SearchLoop(vecs, md, hits, i + 1, q, document_ids,
                                similarity_threshold)
         IN  IF idx > Len(md) THEN rest
             ELSE LET chunk_meta == md[idx]
                      chunk_doc_id == chunk_meta.document_id
                      similarity_score == Similarity(SqDist(q, vecs[idx]))
                  IN  IF ExcludedByFilter(document_ids, chunk_doc_id)
                      THEN rest
                      ELSE IF FracGE(similarity_score, similarity_threshold)
                      THEN <<[chunk_id |-> chunk_meta.chunk_id,
                              document_id |-> IF chunk_doc_id = NoneDoc
                                              THEN "unknown" ELSE chunk_doc_id,
                              chunk_text |-> chunk_meta.chunk_text,
                              chunk_index |-> chunk_meta.chunk_index,
                              metadata |-> [present |-> TRUE,
                                            document_id |-> chunk_doc_id,
                                            chunk_index |-> chunk_meta.chunk_index],
                              similarity_score |-> similarity_score]>> \o rest
                      ELSE rest

\* every list search_similar_chunks can return on a store holding (idx, md)
SearchResults(idx, md, q, document_ids, limit, similarity_threshold) ==
    IF ~idx.exists \/ Len(idx.vecs) = 0 THEN {<<>>}
    ELSE {SearchLoop(idx.vecs, md, hits, 1, q, document_ids,
                     similarity_threshold) :
             hits \in TopK(idx.vecs, q, ClampedLimit(limit, Len(idx.vecs)))}

search_similar_chunks(query_embedding, document_ids, limit, similarity_threshold) ==
    /\ ret = Idle
    /\ \E chunks \in SearchResults(index, metadata, query_embedding,
                                   document_ids, limit, similarity_threshold) :
          ret' = [op |-> "search", query_embedding |-> query_embedding,
                  document_ids |-> document_ids, limit |-> limit,
                  similarity_threshold |-> similarity_threshold,
                  after_store |-> just_added, value |-> chunks]
    /\ just_added' = {}
    /\ UNCHANGED <<index, metadata, doc_chunks, disk_index, disk_metadata,
                   next_id, added, deleted, chunker, ingest, callers>>

----------------------------------------------------------------------------
(* get_document_chunks, get_chunk_statistics                               *)

\* self._metadata.get(chunk_id, {}) followed by the .get defaults
MetaGet(md, chunk_id) ==
    IF \E i \in 1..Len(md) : md[i].chunk_id = chunk_id
    THEN LET e == md[CHOOSE i \in 1..Len(md) : md[i].chunk_id = chunk_id]
         IN  [chunk_id |-> chunk_id, chunk_text |-> e.chunk_text,
              chunk_index |-> e.chunk_index,
              metadata |-> [present |-> TRUE, document_id |-> e.document_id,
                            chunk_index |-> e.chunk_index]]
    ELSE [chunk_id |-> chunk_id, chunk_text |-> <<>>, chunk_index |-> 0,
          metadata |-> [present |-> FALSE, document_id |-> NoKey,
                        chunk_index |-> 0]]

\* list.sort(key=chunk_index) is stable: insert x after every element whose
\* key is not larger
RECURSIVE InsertSorted(_, _)
InsertSorted(sorted, x) ==
    IF sorted = <<>> THEN <<x>>
    ELSE IF Head(sorted).chunk_index <= x.chunk_index
    THEN <<Head(sorted)>> \o InsertSorted(Tail(sorted), x)
    ELSE <<x>> \o sorted

RECURSIVE SortByChunkIndex(_)
SortByChunkIndex(chunks) ==
    IF chunks = <<>> THEN <<>>
    ELSE InsertSorted(SortByChunkIndex(SubSeq(chunks, 1, Len(chunks) - 1)),
                      chunks[Len(chunks)])

\* DocumentChunks when the list is returned in the order of the document table
DocumentChunksUnsorted(dc, md, document_id) ==
    [i \in 1..Len(dc[document_id]) |-> MetaGet(md, dc[document_id][i])]

\* get_document_chunks: the chunks of the document table, sorted by chunk_index
DocumentChunks(dc, md, document_id) ==
    SortByChunkIndex([i \in 1..Len(dc[document_id]) |->
                         MetaGet(md, dc[document_id][i])])

\* get_document_chunks when the list is taken out of the document table with
\* dict.pop instead of read with dict.get
get_document_chunks_popping(document_id) ==
    /\ ret = Idle
    /\ ret' = [op |-> "get", document_id |-> document_id,
               value |-> DocumentChunks(doc_chunks, metadata, document_id)]
    /\ doc_chunks' = [doc_chunks EXCEPT ![document_id] = <<>>]
    /\ just_added' = {}
    /\ UNCHANGED <<index, metadata, disk_index, disk_metadata,
                   next_id, added, deleted, chunker, ingest, callers>>

get_document_chunks(document_id) ==
    /\ ret = Idle
    /\ ret' = [op |-> "get", document_id |-> document_id,
               value |-> DocumentChunks(doc_chunks, metadata, document_id)]
    /\ just_added' = {}
    /\ UNCHANGED <<index, metadata, doc_chunks, disk_index, disk_metadata,
                   next_id, added, deleted, chunker, ingest, callers>>

RECURSIVE TotalCharacters(_)
TotalCharacters(chunks) ==
    IF chunks = <<>> THEN 0
    ELSE Len(Head(chunks).chunk_text) + TotalCharacters(Tail(chunks))

\* average_chunk_size is kept as the fraction <<total_characters, total_chunks>>
ChunkStatistics(dc, md, document_id) ==
    LET chunks == DocumentChunks(dc, md, document_id)
    IN  IF chunks = <<>>
        THEN [total_chunks |-> 0, total_characters |-> 0,
              average_chunk_size |-> <<0, 1>>]
        ELSE [total_chunks |-> Len(chunks),
              total_characters |-> TotalCharacters(chunks),
              average_chunk_size |-> <<TotalCharacters(chunks), Len(chunks)>>]

get_chunk_statistics(document_id) ==
    /\ ret = Idle
    /\ ret' = [op |-> "stats", document_id |-> document_id,
               value |-> ChunkStatistics(doc_chunks, metadata, document_id)]
    /\ just_added' = {}
    /\ UNCHANGED <<index, metadata, doc_chunks, disk_index, disk_metadata,
                   next_id, added, deleted, chunker, ingest, callers>>

----------------------------------------------------------------------------
(* delete_document_chunks, delete_all, construction on an existing directory *)

\* PopAll when the metadata entries are left behind
PopAllKeepsMetadata(md, chunk_ids) == md

\* "for chunk_id in chunk_ids: self._metadata.pop(chunk_id, None)"
PopAll(md, chunk_ids) ==
    SelectSeq(md, LAMBDA e : e.chunk_id \notin Range(chunk_ids))

\* PopDocument when the document's list stays in the table
PopDocumentKeepsList(dc, document_id) == dc

\* "self._doc_chunks.pop(document_id, None)"
PopDocument(dc, document_id) == [dc EXCEPT ![document_id] = <<>>]

delete_document_chunks(document_id, fault) ==
    /\ ret = Idle
    /\ LET chunk_ids == doc_chunks[document_id]
       IN  IF chunk_ids = <<>>
           THEN /\ fault = "none"
                /\ ret' = [op |-> "delete", document_id |-> document_id,
                           outcome |-> "True", fault |-> "none", n |-> 0]
                /\ UNCHANGED <<metadata, doc_chunks, disk_index, disk_metadata>>
           ELSE LET md == PopAll(metadata, chunk_ids)
                    dc == PopDocument(doc_chunks, document_id)
                IN  /\ metadata' = md
                    /\ doc_chunks' = dc
                    /\ disk_index' = SavedIndexFile(index, fault, disk_index)
                    /\ disk_metadata' =
                           SavedMetadataFile(md, dc, fault, disk_metadata)
                    /\ ret' = [op |-> "delete", document_id |-> document_id,
                               outcome |-> "True", fault |-> fault,
                               n |-> Len(chunk_ids)]
    /\ deleted' = deleted \cup {document_id}
    /\ just_added' = {}
    /\ UNCHANGED <<index, next_id, added, chunker, ingest, callers>>

delete_all ==
    /\ ret = Idle
    /\ disk_index' = [exists |-> FALSE, vecs |-> <<>>]
    /\ disk_metadata' = AbsentMetadataFile
    /\ index' = NoneIndex
    /\ metadata' = <<>>
    /\ doc_chunks' = EmptyDocChunks
    /\ ret' = [op |-> "delete_all", outcome |-> "True"]
    /\ just_added' = {}
    /\ UNCHANGED <<next_id, added, deleted, chunker, ingest, callers>>

\* the process ends and LocalVectorStore.__init__ runs on the same directory
Restart ==
    /\ ret = Idle
    /\ index' = LoadedIndex(disk_index)
    /\ metadata' = LoadedMetadata(disk_metadata)
    /\ doc_chunks' = LoadedDocChunks(disk_metadata)
    /\ ret' = [op |-> "init"]
    /\ deleted' = {}
    /\ just_added' = {}
    /\ UNCHANGED <<disk_index, disk_metadata, next_id, added, chunker, ingest, callers>>

\* the caller takes the value of the finished call
Return ==
    /\ ret # Idle
    /\ ret' = Idle
    /\ UNCHANGED <<index, metadata, doc_chunks, disk_index, disk_metadata,
                   next_id, added, deleted, just_added, chunker, ingest, callers>>

----------------------------------------------------------------------------
(* ChunkingService.  A text is a sequence of characters.                   *)

\* str.strip(), left and right halves
RECURSIVE LStrip(_)
LStrip(t) == IF t # <<>> /\ IsSpace(Head(t)) THEN LStrip(Tail(t)) ELSE t

RECURSIVE RStrip(_)
RStrip(t) ==
    IF t # <<>> /\ IsSpace(t[Len(t)]) THEN RStrip(SubSeq(t, 1, Len(t) - 1))
    ELSE t

Strip(t) == LStrip(RStrip(t))

\* re.sub(r'\s+', ' ', text): every run of whitespace becomes one blank
RECURSIVE CollapseSpaces(_)
CollapseSpaces(t) ==
    IF t = <<>> THEN <<>>
    ELSE IF IsSpace(Head(t))
    THEN <<" ">> \o CollapseSpaces(LStrip(t))
    ELSE <<Head(t)>> \o CollapseSpaces(Tail(t))

\* the characters of the class [\r\n\t]
IsControl(c) == c \in {"\r", "\n", "\t"}

RECURSIVE LStripControl(_)
LStripControl(t) ==
    IF t # <<>> /\ IsControl(Head(t)) THEN LStripControl(Tail(t)) ELSE t

\* re.sub(r'[\r\n\t]+', ' ', text): every run of carriage returns, newlines
\* and tabs becomes one blank
RECURSIVE ReplaceControl(_)
ReplaceControl(t) ==
    IF t = <<>> THEN <<>>
    ELSE IF IsControl(Head(t))
    THEN <<" ">> \o ReplaceControl(LStripControl(t))
    ELSE <<Head(t)>> \o ReplaceControl(Tail(t))

\* clean_text when the result is returned without .strip()
CleanTextUntrimmed(text) == ReplaceControl(CollapseSpaces(text))

\* _clean_text: the two substitutions, then .strip(); the quote and dash
\* replacements find nothing to replace in a text over these alphabets
clean_text(text) == Strip(ReplaceControl(CollapseSpaces(text)))

\* one call of _clean_text on a raw text
CleanText ==
    /\ chunker.state = "raw"
    /\ chunker' = [state |-> "cleaned", text |-> chunker.text,
                   cleaned |-> clean_text(chunker.text)]
    /\ UNCHANGED <<store_vars, ingest, callers>>

\* re.split(r'(?<=[.!?])\s+(?=[A-Z])', text): a run of whitespace that follows
\* a terminator and is followed by an upper-case letter separates two pieces;
\* cur is the piece being read, i the position in text
RECURSIVE SplitFrom(_, _, _)
SplitFrom(text, i, cur) ==
    IF i > Len(text) THEN <<cur>>
    ELSE IF /\ IsSpace(text[i])
            /\ i > 1 /\ IsTerminator(text[i - 1])
            /\ LET rest == LStrip(SubSeq(text, i, Len(text)))
               IN  rest # <<>> /\ IsUpper(Head(rest))
    THEN LET rest == LStrip(SubSeq(text, i, Len(text)))
         IN  <<cur>> \o SplitFrom(text, Len(text) - Len(rest) + 1, <<>>)
    ELSE SplitFrom(text, i + 1, Append(cur, text[i]))

\* _split_into_sentences: "[s.strip() for s in sentences if s.strip()]"
RECURSIVE StripNonEmpty(_)
StripNonEmpty(pieces) ==
    IF pieces = <<>> THEN <<>>
    ELSE IF Strip(Head(pieces)) # <<>>
    THEN <<Strip(Head(pieces))>> \o StripNonEmpty(Tail(pieces))
    ELSE StripNonEmpty(Tail(pieces))

split_into_sentences(text) == StripNonEmpty(SplitFrom(text, 1, <<>>))

\* str.split(): the maximal runs of non-blank characters
RECURSIVE WordsFrom(_, _)
WordsFrom(t, cur) ==
    IF t = <<>> THEN (IF cur = <<>> THEN <<>> ELSE <<cur>>)
    ELSE IF IsSpace(Head(t))
    THEN (IF cur = <<>> THEN <<>> ELSE <<cur>>) \o WordsFrom(Tail(t), <<>>)
    ELSE WordsFrom(Tail(t), Append(cur, Head(t)))

Words(t) == WordsFrom(t, <<>>)

\* An emitted chunk is kept with the statement that appended it (via):
\* "overlap" line 134, "last" line 160, "words" lines 181 and 193,
\* "truncate" line 185.
Emitted(t, via) == [text |-> t, via |-> via]

\* word[:chunk_size], the slice of Python: a negative bound counts from the
\* end of the word
Truncated(word, chunk_size) ==
    IF chunk_size >= 0 THEN SubSeq(word, 1, Min(chunk_size, Len(word)))
    ELSE SubSeq(word, 1, Max(0, Len(word) + chunk_size))

\* _split_long_sentence: the loop over words from word i on
RECURSIVE SplitWordsFrom(_, _, _, _)
SplitWordsFrom(words, i, current_chunk, chunk_size) ==
    IF i > Len(words)
    THEN IF current_chunk # <<>>
         THEN <<Emitted(Strip(current_chunk), "words")>>
         ELSE <<>>
    ELSE LET word == words[i]
         IN  IF Len(current_chunk) + Len(word) + 1 > chunk_size
             THEN IF current_chunk # <<>>
                  THEN <<Emitted(Strip(current_chunk), "words")>> \o
                       SplitWordsFrom(words, i + 1, word, chunk_size)
                  ELSE <<Emitted(Truncated(word, chunk_size), "truncate")>> \o
                       SplitWordsFrom(words, i + 1, <<>>, chunk_size)
             ELSE IF current_chunk # <<>>
                  THEN SplitWordsFrom(words, i + 1,
                                      current_chunk \o <<" ">> \o word,
                                      chunk_size)
                  ELSE SplitWordsFrom(words, i + 1, word, chunk_size)

\* split_long_sentence when the loop starts at the second word
split_long_sentence_skipping_first(sentence, chunk_size) ==
    SplitWordsFrom(Words(sentence), 2, <<>>, chunk_size)

split_long_sentence(sentence, chunk_size) ==
    SplitWordsFrom(Words(sentence), 1, <<>>, chunk_size)

\* OverlapText when the slice starts one character late
OverlapTextOffByOne(current_chunk, overlap_size) ==
    SubSeq(current_chunk, Max(0, Len(current_chunk) - overlap_size) + 2,
           Len(current_chunk))

\* "overlap_start = max(0, len(current_chunk) - self.overlap_size)" and
\* "overlap_text = current_chunk[overlap_start:]"
OverlapText(current_chunk, overlap_size) ==
    SubSeq(current_chunk, Max(0, Len(current_chunk) - overlap_size) + 1,
           Len(current_chunk))

\* _create_chunks_with_overlap: the while loop from sentence_index on
RECURSIVE ChunksFrom(_, _, _, _, _)
ChunksFrom(sentences, sentence_index, current_chunk, chunk_size, overlap_size) ==
    IF sentence_index > Len(sentences)
    THEN IF current_chunk # <<>>
         THEN <<Emitted(Strip(current_chunk), "last")>>
         ELSE <<>>
    ELSE LET sentence == sentences[sentence_index]
         IN  IF Len(current_chunk) + Len(sentence) + 1 > chunk_size
             THEN IF current_chunk # <<>>
                  THEN LET overlap_text ==
                               OverlapText(current_chunk, overlap_size)
                       IN  <<Emitted(Strip(current_chunk), "overlap")>> \o
                           ChunksFrom(sentences, sentence_index + 1,
                                      overlap_text \o <<" ">> \o sentence,
                                      chunk_size, overlap_size)
                  ELSE IF Len(sentence) > chunk_size
                       THEN split_long_sentence(sentence, chunk_size) \o
                            ChunksFrom(sentences, sentence_index + 1, <<>>,
                                       chunk_size, overlap_size)
                       ELSE ChunksFrom(sentences, sentence_index + 1, sentence,
                                       chunk_size, overlap_size)
             ELSE IF current_chunk # <<>>
                  THEN ChunksFrom(sentences, sentence_index + 1,
                                  current_chunk \o <<" ">> \o sentence,
                                  chunk_size, overlap_size)
                  ELSE ChunksFrom(sentences, sentence_index + 1, sentence,
                                  chunk_size, overlap_size)

\* create_chunks_with_overlap when the last append is not guarded by
\* "if current_chunk": an empty sentence list gives one empty chunk
create_chunks_unguarded_last(sentences, chunk_size, overlap_size) ==
    IF sentences = <<>> THEN <<Emitted(<<>>, "last")>>
    ELSE ChunksFrom(sentences, 1, <<>>, chunk_size, overlap_size)

create_chunks_with_overlap(sentences, chunk_size, overlap_size) ==
    ChunksFrom(sentences, 1, <<>>, chunk_size, overlap_size)

\* ChunkData when chunk_index takes the value of chunk_number
ChunkDataNumberedFromOne(text, document_id, chunk_size, overlap_size) ==
    LET chunks == create_chunks_with_overlap(
                      split_into_sentences(clean_text(text)),
                      chunk_size, overlap_size)
    IN  [i \in 1..Len(chunks) |->
            [chunk_text |-> chunks[i].text,
             chunk_index |-> i,
             chunk_size |-> Len(chunks[i].text),
             metadata |-> [document_id |-> document_id,
                           chunk_number |-> i,
                           total_chunks |-> Len(chunks)],
             via |-> chunks[i].via]]

\* chunk_text: the chunk dictionaries, in emission order
ChunkData(text, document_id, chunk_size, overlap_size) ==
    LET chunks == create_chunks_with_overlap(
                      split_into_sentences(clean_text(text)),
                      chunk_size, overlap_size)
    IN  [i \in 1..Len(chunks) |->
            [chunk_text |-> chunks[i].text,
             chunk_index |-> i - 1,
             chunk_size |-> Len(chunks[i].text),
             metadata |-> [document_id |-> document_id,
                           chunk_number |-> i,
                           total_chunks |-> Len(chunks)],
             via |-> chunks[i].via]]

\* ChunkingService.__init__ stores both values as they are given; text is the
\* argument of the chunk_text call that follows
ChunkingService_init(chunk_size, overlap_size, text) ==
    /\ chunker.state = "unused"
    /\ chunker' = [state |-> "ready", chunk_size |-> chunk_size,
                   overlap_size |-> overlap_size, text |-> text,
                   document_id |-> "d1", chunks |-> <<>>]
    /\ UNCHANGED <<store_vars, ingest, callers>>

chunk_text ==
    /\ chunker.state = "ready"
    /\ chunker' = [chunker EXCEPT
                     !.state = "done",
                     !.chunks = ChunkData(chunker.text, chunker.document_id,
                                          chunker.chunk_size,
                                          chunker.overlap_size)]
    /\ UNCHANGED <<store_vars, ingest, callers>>

\* The while loop of _create_chunks_with_overlap, one iteration at a time.
\* sentence_index, current_chunk and chunks are the locals of the method;
\* iterations is history: how often the body has run.

\* WhileBody when the sentence that follows an emitted chunk is taken again
\* by the next iteration
WhileBodyRepeatingAfterOverlap(loop, chunk_size, overlap_size) ==
    LET sentence == loop.sentences[loop.sentence_index + 1]
        current_chunk == loop.current_chunk
    IN  IF Len(current_chunk) + Len(sentence) + 1 > chunk_size
        THEN IF current_chunk # <<>>
             THEN [loop EXCEPT
                     !.chunks = Append(@, Emitted(Strip(current_chunk),
                                                  "overlap")),
                     !.current_chunk =
                         OverlapText(current_chunk, overlap_size)
                             \o <<" ">> \o sentence]
             ELSE IF Len(sentence) > chunk_size
             THEN [loop EXCEPT
                     !.chunks = @ \o split_long_sentence(sentence, chunk_size),
                     !.current_chunk = <<>>,
                     !.sentence_index = @ + 1]
             ELSE [loop EXCEPT !.current_chunk = sentence,
                               !.sentence_index = @ + 1]
        ELSE [loop EXCEPT
                !.current_chunk = IF current_chunk # <<>>
                                  THEN current_chunk \o <<" ">> \o sentence
                                  ELSE sentence,
                !.sentence_index = @ + 1]

\* lines 129-156: the body of the loop for the sentence at sentence_index
WhileBody(loop, chunk_size, overlap_size) ==
    LET sentence == loop.sentences[loop.sentence_index + 1]
        current_chunk == loop.current_chunk
    IN  IF Len(current_chunk) + Len(sentence) + 1 > chunk_size
        THEN IF current_chunk # <<>>
             THEN [loop EXCEPT
                     !.chunks = Append(@, Emitted(Strip(current_chunk),
                                                  "overlap")),
                     !.current_chunk =
                         OverlapText(current_chunk, overlap_size)
                             \o <<" ">> \o sentence,
                     !.sentence_index = @ + 1]
             ELSE IF Len(sentence) > chunk_size
             THEN [loop EXCEPT
                     !.chunks = @ \o split_long_sentence(sentence, chunk_size),
                     !.current_chunk = <<>>,
                     !.sentence_index = @ + 1]
             ELSE [loop EXCEPT !.current_chunk = sentence,
                               !.sentence_index = @ + 1]
        ELSE [loop EXCEPT
                !.current_chunk = IF current_chunk # <<>>
                                  THEN current_chunk \o <<" ">> \o sentence
                                  ELSE sentence,
                !.sentence_index = @ + 1]

\* chunk_text of a ChunkingService(chunk_size, overlap_size) up to the loop
create_chunks_enter(chunk_size, overlap_size, text) ==
    /\ chunker.state = "unused"
    /\ chunker' = [state |-> "looping", chunk_size |-> chunk_size,
                   overlap_size |-> overlap_size, text |-> text,
                   sentences |-> split_into_sentences(clean_text(text)),
                   sentence_index |-> 0, current_chunk |-> <<>>,
                   chunks |-> <<>>, iterations |-> 0]
    /\ UNCHANGED <<store_vars, ingest, callers>>

\* "while sentence_index < len(sentences)": one run of the body
create_chunks_iteration ==
    /\ chunker.state = "looping"
    /\ chunker.sentence_index < Len(chunker.sentences)
    /\ chunker' = [WhileBody(chunker, chunker.chunk_size,
                             chunker.overlap_size)
                      EXCEPT !.iterations = @ + 1]
    /\ UNCHANGED <<store_vars, ingest, callers>>

\* the loop condition is false: the last chunk is added and chunk_text
\* returns
create_chunks_exit ==
    /\ chunker.state = "looping"
    /\ chunker.sentence_index >= Len(chunker.sentences)
    /\ chunker' = [chunker EXCEPT
                     !.state = "exited",
                     !.chunks =
                         IF chunker.current_chunk # <<>>
                         THEN Append(@, Emitted(Strip(chunker.current_chunk),
                                                "last"))
                         ELSE @]
    /\ UNCHANGED <<store_vars, ingest, callers>>

----------------------------------------------------------------------------
(* RAGService.process_document over GeminiClient.generate_embeddings and   *)
(* VectorStore, whose tables are "documents" and "document_chunks".        *)

\* ensured is history: _ensure_initialized has returned in this call
NoCall == [pc |-> "idle", file_id |-> <<>>, chunks |-> <<>>, i |-> 0,
           embeddings |-> <<>>, batch_embeddings |-> <<>>,
           document_id |-> <<>>, error |-> <<>>, ensured |-> FALSE]

\* RAGService.__init__: every component is None (FALSE) and nothing is
\* initialized
NoService == [initialized |-> FALSE, document_processor |-> FALSE,
              chunking_service |-> FALSE, gemini_client |-> FALSE,
              vector_store |-> FALSE, supabase |-> FALSE]

\* the constructor that can raise during _initialize_components:
\* GeminiClient() without GEMINI_API_KEY, VectorStore() when the Supabase
\* client cannot be created, or none
InitFailures == {"none", "gemini_client", "vector_store"}

\* _initialize_components: the components are assigned in order up to the
\* constructor that raises; the handler sets _initialized and re-raises
initialize_components(service, failing) ==
    IF service.initialized THEN [service |-> service, raised |-> FALSE]
    ELSE IF failing = "none"
    THEN [service |-> [initialized |-> TRUE, document_processor |-> TRUE,
                       chunking_service |-> TRUE, gemini_client |-> TRUE,
                       vector_store |-> TRUE, supabase |-> TRUE],
          raised |-> FALSE]
    ELSE [service |-> [service EXCEPT
                          !.initialized = TRUE,
                          !.document_processor = TRUE,
                          !.chunking_service = TRUE,
                          !.gemini_client = (failing # "gemini_client")],
          raised |-> TRUE]

\* _ensure_initialized
ensure_initialized(service, failing) ==
    IF ~service.initialized THEN initialize_components(service, failing)
    ELSE [service |-> service, raised |-> FALSE]

\* a RAGService before its first upload; embed_failed and store_calls are
\* history: the files whose embedding failed, and the files for which
\* store_document_chunks was called
NoIngest == [call |-> NoCall, uploads |-> 0, documents |-> <<>>,
             rows |-> <<>>, embed_failed |-> {}, store_calls |-> {},
             service |-> NoService]

\* "except Exception as e: raise Exception(f"...: {str(e)}")": the message of
\* the new error holds the message of the one it replaces
Wrapped(prefix, error) == <<prefix>> \o error

\* process_document's handler around every step
ProcessingFailed(call, error) ==
    [call EXCEPT !.pc = "raised",
                 !.error = Wrapped("Document processing failed", error)]

\* the chunks chunk_text returns for the file: its texts, numbered, with the
\* file_id as the "document_id" of their metadata
FileChunks(texts, file_id) ==
    [i \in 1..Len(texts) |->
        [chunk_index |-> i - 1, chunk_text |-> texts[i], metadata |-> file_id]]

\* process_document up to the call of generate_embeddings; failing is the
\* constructor that raises if the components are initialized in this call
process_document(texts, db_available, failing) ==
    /\ ingest.call.pc = "idle"
    /\ ingest.uploads < MaxUploads
    /\ LET file_id == <<"file", ingest.uploads + 1>>
           init == ensure_initialized(ingest.service, failing)
           call == [NoCall EXCEPT !.file_id = file_id,
                                  !.ensured = ~init.raised]
       IN  ingest' =
             [ingest EXCEPT
                !.uploads = @ + 1,
                !.service = init.service,
                !.call =
                   IF init.raised
                   THEN ProcessingFailed(call, <<"initialization error">>)
                   ELSE IF ~db_available
                   THEN ProcessingFailed(call, <<"Database is not available">>)
                   ELSE IF ~init.service.gemini_client
                   THEN \* self.gemini_client is None on line 93
                        ProcessingFailed(
                            [call EXCEPT !.chunks = FileChunks(texts, file_id)],
                            <<"'NoneType' object has no attribute">>)
                   ELSE [call EXCEPT !.pc = "embedding",
                                     !.chunks = FileChunks(texts, file_id),
                                     !.i = 1]]
    /\ UNCHANGED <<store_vars, chunker, callers>>

\* OnEmbedError when generate_embeddings returns the embeddings it has
OnEmbedErrorKeepsPartial(call) ==
    [call EXCEPT !.i = Len(call.chunks) + 1,
                 !.embeddings = @ \o call.batch_embeddings,
                 !.batch_embeddings = <<>>]

\* embed_content raises: generate_embeddings raises "Embedding generation
\* failed" and process_document raises "Document processing failed"
OnEmbedError(call) ==
    ProcessingFailed(call, Wrapped("Embedding generation failed",
                                   <<"provider error">>))

\* one embed_content call of generate_embeddings, for text i; a batch is
\* added to embeddings when its last text is embedded
embed_content(ok) ==
    /\ ingest.call.pc = "embedding"
    /\ ingest.call.i <= Len(ingest.call.chunks)
    /\ LET call == ingest.call
           batch_embeddings ==
               Append(call.batch_embeddings,
                      Embed(call.chunks[call.i].chunk_text, embedding_dim))
           batch_done == \/ Len(batch_embeddings) = batch_size
                         \/ call.i = Len(call.chunks)
       IN  IF ok
           THEN ingest' =
                  [ingest EXCEPT
                     !.call.i = @ + 1,
                     !.call.batch_embeddings =
                         IF batch_done THEN <<>> ELSE batch_embeddings,
                     !.call.embeddings =
                         IF batch_done THEN @ \o batch_embeddings ELSE @]
           ELSE ingest' =
                  [ingest EXCEPT
                     !.call = OnEmbedError(call),
                     !.embed_failed = @ \cup {call.file_id}]
    /\ UNCHANGED <<store_vars, chunker, callers>>

\* generate_embeddings has returned; _store_document_metadata inserts the
\* row of the document under a fresh id
store_document_metadata(ok) ==
    /\ ingest.call.pc = "embedding"
    /\ ingest.call.i > Len(ingest.call.chunks)
    /\ LET document_id == <<"doc", Len(ingest.documents) + 1>>
       IN  IF ok /\ ingest.service.supabase
           THEN ingest' =
                  [ingest EXCEPT
                     !.call.pc = "store",
                     !.call.document_id = document_id,
                     !.documents = Append(@, [id |-> document_id,
                                              status |-> "default"])]
           ELSE \* "if not self.supabase: raise" or the insert raises
                ingest' =
                  [ingest EXCEPT
                     !.call = ProcessingFailed(ingest.call,
                                  Wrapped("Failed to store document metadata",
                                          <<"database error">>))]
    /\ UNCHANGED <<store_vars, chunker, callers>>

\* VectorStore.store_document_chunks: the records of one insert
ChunkRecords(document_id, chunks, embeddings) ==
    [i \in 1..Min(Len(chunks), Len(embeddings)) |->
        [document_id |-> document_id,
         chunk_text |-> chunks[i].chunk_text,
         chunk_index |-> chunks[i].chunk_index,
         embedding |-> embeddings[i],
         metadata |-> chunks[i].metadata]]

\* VectorStore.store_document_chunks, called by process_document
VectorStore_store_document_chunks(ok) ==
    /\ ingest.call.pc = "store"
    /\ LET call == ingest.call
       IN  IF ok
           THEN ingest' =
                  [ingest EXCEPT
                     !.call.pc = "status",
                     !.rows = @ \o ChunkRecords(call.document_id, call.chunks,
                                                call.embeddings),
                     !.store_calls = @ \cup {call.file_id}]
           ELSE ingest' =
                  [ingest EXCEPT
                     !.call = ProcessingFailed(call,
                                  Wrapped("Failed to store document chunks",
                                          <<"database error">>)),
                     !.store_calls = @ \cup {call.file_id}]
    /\ UNCHANGED <<store_vars, chunker, callers>>

\* _update_document_status: a failed update is logged and returns False
update_document_status(ok) ==
    /\ ingest.call.pc = "status"
    /\ ingest' =
         [ingest EXCEPT
            !.call.pc = "returned",
            !.documents =
                [d \in 1..Len(@) |->
                    IF ok /\ @[d].id = ingest.call.document_id
                    THEN [@[d] EXCEPT !.status = "processed"]
                    ELSE @[d]]]
    /\ UNCHANGED <<store_vars, chunker, callers>>

\* the caller takes the result or the error of process_document
process_document_return ==
    /\ ingest.call.pc \in {"returned", "raised"}
    /\ ingest' = [ingest EXCEPT !.call = NoCall]
    /\ UNCHANGED <<store_vars, chunker, callers>>

----------------------------------------------------------------------------
(* One LocalVectorStore used by callers whose calls overlap.  The class    *)
(* holds no lock: a call is the sequence of its statements, and another    *)
(* caller's statements can come between them.                              *)

Callers == {"c1", "c2"}

NoTask == [pc |-> "idle", op |-> "none", embeddings |-> <<>>,
           saw_torn |-> FALSE, value |-> <<>>]

\* a store call has filled the metadata table and not yet called index.add
MetadataAheadOfIndex == \E k \in Callers : callers[k].pc = "add"

\* store_document_chunks, lines 76-98: the index is created if there is none
\* and the loop fills _metadata and _doc_chunks
store_loop(k, document_id, chunks, embeddings) ==
    /\ callers[k].pc = "idle"
    /\ chunks # <<>>
    /\ next_id + Min(Len(chunks), Len(embeddings)) <= MaxChunks + 1
    /\ LET n == Min(Len(chunks), Len(embeddings))
           ids == [i \in 1..n |-> next_id + i - 1]
       IN  /\ index' = [exists |-> TRUE, vecs |-> index.vecs]
           /\ metadata' = metadata \o
                  NewEntries(document_id, chunks, embeddings, next_id)
           /\ doc_chunks' = [doc_chunks EXCEPT ![document_id] = @ \o ids]
           /\ next_id' = next_id + n
           /\ added' = added \o NewHistory(document_id, chunks, embeddings)
    /\ callers' = [callers EXCEPT ![k] =
                      [NoTask EXCEPT !.pc = "add", !.op = "store",
                                     !.embeddings = embeddings]]
    /\ UNCHANGED <<disk_index, disk_metadata, deleted, just_added, ret,
                   chunker, ingest>>

\* store_document_chunks, line 100: self._index.add(embeddings_array)
index_add(k) ==
    /\ callers[k].pc = "add"
    /\ index' = [index EXCEPT !.vecs = @ \o callers[k].embeddings]
    /\ callers' = [callers EXCEPT ![k].pc = "write_index"]
    /\ UNCHANGED <<metadata, doc_chunks, disk_index, disk_metadata, next_id,
                   added, deleted, just_added, ret, chunker, ingest>>

\* delete_document_chunks, lines 178-187
delete_pop(k, document_id) ==
    /\ callers[k].pc = "idle"
    /\ LET chunk_ids == doc_chunks[document_id]
       IN  IF chunk_ids = <<>>
           THEN /\ callers' = [callers EXCEPT ![k] =
                                  [NoTask EXCEPT !.pc = "returned",
                                                 !.op = "delete"]]
                /\ UNCHANGED <<metadata, doc_chunks>>
           ELSE /\ metadata' = PopAll(metadata, chunk_ids)
                /\ doc_chunks' = PopDocument(doc_chunks, document_id)
                /\ callers' = [callers EXCEPT ![k] =
                                  [NoTask EXCEPT !.pc = "write_index",
                                                 !.op = "delete"]]
    /\ UNCHANGED <<index, disk_index, disk_metadata, next_id, added, deleted,
                   just_added, ret, chunker, ingest>>

\* _save_index, lines 56-57: faiss.write_index
write_index(k) ==
    /\ callers[k].pc = "write_index"
    /\ disk_index' = SavedIndexFile(index, "none", disk_index)
    /\ callers' = [callers EXCEPT ![k].pc = "write_metadata"]
    /\ UNCHANGED <<index, metadata, doc_chunks, disk_metadata, next_id,
                   added, deleted, just_added, ret, chunker, ingest>>

\* _save_index, lines 59-64: json.dump of both tables; the call then returns
write_metadata(k) ==
    /\ callers[k].pc = "write_metadata"
    /\ disk_metadata' =
           SavedMetadataFile(metadata, doc_chunks, "none", disk_metadata)
    /\ callers' = [callers EXCEPT ![k].pc = "returned"]
    /\ UNCHANGED <<index, metadata, doc_chunks, disk_index, next_id,
                   added, deleted, just_added, ret, chunker, ingest>>

\* search_similar_chunks run between the statements of the other callers;
\* saw_torn is history: what the tables were like when it read them
read_search(k, query_embedding) ==
    /\ callers[k].pc = "idle"
    /\ \E chunks \in SearchResults(index, metadata, query_embedding,
                                   [given |-> FALSE, ids |-> {}],
                                   N_RESULTS, <<0, 1>>) :
          callers' = [callers EXCEPT ![k] =
                         [NoTask EXCEPT !.pc = "returned", !.op = "search",
                                        !.saw_torn = MetadataAheadOfIndex,
                                        !.value = chunks]]
    /\ UNCHANGED <<store_vars, chunker, ingest>>

\* get_document_chunks run between the statements of the other callers
read_get(k, document_id) ==
    /\ callers[k].pc = "idle"
    /\ callers' = [callers EXCEPT ![k] =
                      [NoTask EXCEPT !.pc = "returned", !.op = "get",
                                     !.saw_torn = MetadataAheadOfIndex,
                                     !.value = DocumentChunks(doc_chunks,
                                                   metadata, document_id)]]
    /\ UNCHANGED <<store_vars, chunker, ingest>>

\* the caller takes the value of its call
task_return(k) ==
    /\ callers[k].pc = "returned"
    /\ callers' = [callers EXCEPT ![k] = NoTask]
    /\ UNCHANGED <<store_vars, chunker, ingest>>

----------------------------------------------------------------------------
Init ==
    /\ index = NoneIndex
    /\ metadata = <<>>
    /\ doc_chunks = EmptyDocChunks
    /\ disk_index = [exists |-> FALSE, vecs |-> <<>>]
    /\ disk_metadata = AbsentMetadataFile
    /\ next_id = 1
    /\ added = <<>>
    /\ deleted = {}
    /\ just_added = {}
    /\ ret = Idle
    /\ chunker = [state |-> "unused"]
    /\ ingest = NoIngest
    /\ callers = [k \in Callers |-> NoTask]

\* the batches a caller passes: chunk texts, their chunk_index values in
\* emission or reverse order, one "document_id" metadata value for the batch,
\* and the provider's embeddings: of the index's dimension ("ok"), of another
\* one ("bad"), or of mixed lengths ("ragged")
Batch(texts, order, meta_doc, shape) ==
    [chunks |->
        [i \in 1..Len(texts) |->
            [chunk_index |-> IF order = "asc" THEN i - 1 ELSE Len(texts) - i,
             chunk_text |-> texts[i],
             metadata |-> meta_doc]],
     embeddings |->
        [i \in 1..Len(texts) |->
            Embed(texts[i],
                  CASE shape = "ok" -> embedding_dim
                    [] shape = "bad" -> embedding_dim + 1
                    [] OTHER -> IF i = 1 THEN embedding_dim
                                ELSE embedding_dim + 1)]]

Batches(shapes) ==
    {Batch(texts, order, meta_doc, shape) :
        texts \in UNION {[1..n -> Texts] : n \in 0..MaxBatch},
        order \in {"asc", "desc"},
        meta_doc \in MetaDocs,
        shape \in shapes}

WellFormedBatches == Batches({"ok"})
MalformedBatches == {b \in Batches({"bad", "ragged"}) : b.chunks # <<>>}

Store ==
    /\ ret = Idle
    /\ \E document_id \in Docs, b \in WellFormedBatches :
          store_document_chunks(document_id, b.chunks, b.embeddings, "none")

StoreDiskFault ==
    /\ ret = Idle
    /\ \E document_id \in Docs, b \in WellFormedBatches,
          fault \in Faults \ {"none"} :
          /\ b.chunks # <<>>
          /\ store_document_chunks(document_id, b.chunks, b.embeddings, fault)

StoreMalformed ==
    /\ ret = Idle
    /\ \E document_id \in Docs, b \in MalformedBatches :
          store_document_chunks(document_id, b.chunks, b.embeddings, "none")

SearchCall ==
    /\ ret = Idle
    /\ \E q \in Queries, f \in Filters, limit \in Limits, t \in Thresholds :
          search_similar_chunks(q, f, limit, t)

GetCall == \E document_id \in Docs : get_document_chunks(document_id)

StatsCall == \E document_id \in Docs : get_chunk_statistics(document_id)

Delete == \E document_id \in Docs : delete_document_chunks(document_id, "none")

DeleteDiskFault ==
    /\ ret = Idle
    /\ \E document_id \in Docs, fault \in Faults \ {"none"} :
          delete_document_chunks(document_id, fault)

Next ==
    \/ Store
    \/ SearchCall
    \/ GetCall
    \/ StatsCall
    \/ Delete
    \/ delete_all
    \/ Restart
    \/ Return

Spec == Init /\ [][Next]_vars

\* the same store when embeddings can have the wrong shape and disk writes
\* can fail
FaultNext ==
    \/ Next
    \/ StoreMalformed
    \/ StoreDiskFault
    \/ DeleteDiskFault

FaultSpec == Init /\ [][FaultNext]_vars

\* ChunkingService(chunk_size, overlap_size) with 0 <= overlap_size <
\* chunk_size, about to chunk one text
ChunkInit ==
    /\ index = NoneIndex
    /\ metadata = <<>>
    /\ doc_chunks = EmptyDocChunks
    /\ disk_index = [exists |-> FALSE, vecs |-> <<>>]
    /\ disk_metadata = AbsentMetadataFile
    /\ next_id = 1
    /\ added = <<>>
    /\ deleted = {}
    /\ just_added = {}
    /\ ret = Idle
    /\ ingest = NoIngest
    /\ callers = [k \in Callers |-> NoTask]
    /\ \E chunk_size \in 1..MaxChunkSize, overlap_size \in 0..MaxChunkSize,
          text \in InputTexts :
          /\ overlap_size < chunk_size
          /\ chunker = [state |-> "ready", chunk_size |-> chunk_size,
                        overlap_size |-> overlap_size, text |-> text,
                        document_id |-> "d1", chunks |-> <<>>]

ChunkNext == chunk_text

ChunkSpec == ChunkInit /\ [][ChunkNext]_vars

\* a ChunkingService constructed with any pair of sizes, then one chunk_text
Construct ==
    /\ chunker.state = "unused"
    /\ \E chunk_size \in 1..MaxChunkSize, overlap_size \in 0..MaxChunkSize,
          text \in InputTexts :
          ChunkingService_init(chunk_size, overlap_size, text)

ConfigNext ==
    \/ Construct
    \/ chunk_text

ConfigSpec == Init /\ [][ConfigNext]_vars

\* chunk_text followed through its loop, for every pair of sizes from
\* -MaxBelowZero on, overlap_size >= chunk_size included
LoopEnter ==
    /\ chunker.state = "unused"
    /\ \E chunk_size \in (-MaxBelowZero)..MaxChunkSize,
          overlap_size \in (-MaxBelowZero)..MaxChunkSize, text \in InputTexts :
          create_chunks_enter(chunk_size, overlap_size, text)

LoopNext ==
    \/ LoopEnter
    \/ create_chunks_iteration
    \/ create_chunks_exit

LoopSpec == Init /\ [][LoopNext]_vars

\* _clean_text on every raw text, newlines and tabs included
CleanInit ==
    /\ index = NoneIndex
    /\ metadata = <<>>
    /\ doc_chunks = EmptyDocChunks
    /\ disk_index = [exists |-> FALSE, vecs |-> <<>>]
    /\ disk_metadata = AbsentMetadataFile
    /\ next_id = 1
    /\ added = <<>>
    /\ deleted = {}
    /\ just_added = {}
    /\ ret = Idle
    /\ ingest = NoIngest
    /\ callers = [k \in Callers |-> NoTask]
    /\ \E text \in RawTexts : chunker = [state |-> "raw", text |-> text]

CleanNext == CleanText

CleanSpec == CleanInit /\ [][CleanNext]_vars

\* the files uploaded: the chunk texts the chunker returns for each
Upload ==
    \E texts \in UNION {[1..n -> Texts] : n \in 0..MaxBatch},
       db_available \in BOOLEAN, failing \in InitFailures :
        process_document(texts, db_available, failing)

IngestNext ==
    \/ Upload
    \/ \E ok \in BOOLEAN : embed_content(ok)
    \/ \E ok \in BOOLEAN : store_document_metadata(ok)
    \/ \E ok \in BOOLEAN : VectorStore_store_document_chunks(ok)
    \/ \E ok \in BOOLEAN : update_document_status(ok)
    \/ process_document_return

IngestSpec == Init /\ [][IngestNext]_vars

\* the batches of the overlapping callers: one chunk, no "document_id" key
OneChunkBatches ==
    {b \in WellFormedBatches :
        Len(b.chunks) = 1 /\ b.chunks[1].metadata = NoKey}

ConcurrentNext ==
    \E k \in Callers :
        \/ \E document_id \in Docs, b \in OneChunkBatches :
               store_loop(k, document_id, b.chunks, b.embeddings)
        \/ index_add(k)
        \/ \E document_id \in Docs : delete_pop(k, document_id)
        \/ write_index(k)
        \/ write_metadata(k)
        \/ \E q \in Queries : read_search(k, q)
        \/ \E document_id \in Docs : read_get(k, document_id)
        \/ task_return(k)

ConcurrentSpec == Init /\ [][ConcurrentNext]_vars

----------------------------------------------------------------------------
(* Properties.                                                             *)

\* the tables a store constructed on the directory would hold
DiskMatchesMemory ==
    /\ LoadedIndex(disk_index) = index
    /\ LoadedMetadata(disk_metadata) = metadata
    /\ LoadedDocChunks(disk_metadata) = doc_chunks

\* a store or delete call that went through _save_index without a failure
Persisted ==
    /\ ret.op \in {"store", "delete"}
    /\ ret.outcome = "True"
    /\ ret.fault = "none"
    /\ ret.n > 0

Suffix(t, n) == SubSeq(t, Max(0, Len(t) - n) + 1, Len(t))
IsPrefix(p, t) == Len(p) <= Len(t) /\ SubSeq(t, 1, Len(p)) = p

\* C1: in every reachable state the index holds as many vectors as there are
\* metadata entries, and the vector at position i is the one that was added
\* with the i-th metadata key.
C1_IndexAlignedWithMetadata ==
    /\ Len(index.vecs) = Len(metadata)
    /\ \A i \in 1..Len(metadata) :
          index.vecs[i] = added[metadata[i].chunk_id].embedding

\* C2: every search result reports the similarity of the query to the vector
\* that was added together with the result's chunk_id.
C2_ResultScoredByOwnVector ==
    ret.op = "search" =>
        \A i \in 1..Len(ret.value) :
            ret.value[i].similarity_score =
                Similarity(SqDist(ret.query_embedding,
                                  added[ret.value[i].chunk_id].embedding))

\* C3: once delete_document_chunks(d) has returned on this store and d has not
\* been stored again, get_document_chunks(d) is empty, get_chunk_statistics(d)
\* counts 0 chunks, and search returns no chunk that was stored for d.
C3_DeletedDocumentGone ==
    \A d \in deleted :
        /\ (ret.op = "get" /\ ret.document_id = d) => ret.value = <<>>
        /\ (ret.op = "stats" /\ ret.document_id = d) =>
               ret.value.total_chunks = 0
        /\ ret.op = "search" =>
               \A i \in 1..Len(ret.value) :
                   added[ret.value[i].chunk_id].document_id # d

\* C3 witness: a search returns a chunk while a deleted document's vector is
\* still in the index.
C3_Witness ==
    /\ ret.op = "search"
    /\ deleted # {}
    /\ ret.value # <<>>
    /\ Len(index.vecs) > Len(metadata)

\* C4: a search right after a store, with one of the stored vectors as query,
\* no filter, and no other vector in the index equal to it, returns the chunk
\* stored with that vector first, with similarity 1.
C4_StoredVectorFoundFirst ==
    (ret.op = "search" /\ ~ret.document_ids.given) =>
        \A c \in ret.after_store :
            (/\ added[c].embedding = ret.query_embedding
             /\ Cardinality({p \in 1..Len(index.vecs) :
                                index.vecs[p] = ret.query_embedding}) = 1)
            => /\ ret.value # <<>>
               /\ ret.value[1].chunk_id = c
               /\ ret.value[1].similarity_score = <<100, 100>>

\* C5: every chunk chunk_text emits is at most chunk_size characters long, and
\* a chunk made by truncating a word is exactly chunk_size long.
C5_ChunksWithinChunkSize ==
    chunker.state = "done" =>
        \A i \in 1..Len(chunker.chunks) :
            /\ Len(chunker.chunks[i].chunk_text) <= chunker.chunk_size
            /\ chunker.chunks[i].via = "truncate" =>
                   Len(chunker.chunks[i].chunk_text) = chunker.chunk_size

\* C6 as stated: the last overlap_size characters of a chunk emitted through
\* the overlap path are a prefix of the next chunk.
C6_OverlapIsPrefix ==
    chunker.state = "done" =>
        \A i \in 1..(Len(chunker.chunks) - 1) :
            chunker.chunks[i].via = "overlap" =>
                IsPrefix(Suffix(chunker.chunks[i].chunk_text,
                                chunker.overlap_size),
                         chunker.chunks[i + 1].chunk_text)

\* C6 amended: the last overlap_size characters of a chunk emitted through the
\* overlap path, without their leading whitespace, are a prefix of the next
\* chunk.
C6_StrippedOverlapIsPrefix ==
    chunker.state = "done" =>
        \A i \in 1..(Len(chunker.chunks) - 1) :
            chunker.chunks[i].via = "overlap" =>
                IsPrefix(LStrip(Suffix(chunker.chunks[i].chunk_text,
                                       chunker.overlap_size)),
                         chunker.chunks[i + 1].chunk_text)

\* C6 witness: a chunk emitted through the overlap path that is longer than
\* the overlap, and whose overlap starts with a blank.
C6_Witness ==
    /\ chunker.state = "done"
    /\ \E i \in 1..(Len(chunker.chunks) - 1) :
          /\ chunker.chunks[i].via = "overlap"
          /\ chunker.overlap_size >= 2
          /\ Len(chunker.chunks[i].chunk_text) > chunker.overlap_size
          /\ IsSpace(Head(Suffix(chunker.chunks[i].chunk_text,
                                 chunker.overlap_size)))

\* C7: after a call that persisted the store, a store constructed on the same
\* directory answers every search with the same possible result lists and
\* every get_document_chunks with the same list as the store that persisted.
C7_ReloadAnswersTheSame ==
    Persisted =>
        LET idx == LoadedIndex(disk_index)
            md == LoadedMetadata(disk_metadata)
            dc == LoadedDocChunks(disk_metadata)
        IN  /\ \A q \in Queries, f \in Filters, limit \in Limits,
                  t \in Thresholds :
                  SearchResults(idx, md, q, f, limit, t) =
                      SearchResults(index, metadata, q, f, limit, t)
            /\ \A d \in Docs :
                  DocumentChunks(dc, md, d) =
                      DocumentChunks(doc_chunks, metadata, d)

\* C7 witness: a delete has just persisted a store that keeps a chunk and,
\* before it in the index, a different vector of the deleted document.
C7_Witness ==
    /\ Persisted
    /\ ret.op = "delete"
    /\ Len(metadata) >= 1
    /\ Len(index.vecs) > Len(metadata)
    /\ index.vecs[1] # added[metadata[1].chunk_id].embedding

\* C8: when store_document_chunks or delete_document_chunks returns normally,
\* the two files hold exactly the in-memory index, metadata table and
\* document table (a failed write is not reported as success).
C8_ReturnMeansPersisted ==
    (ret.op \in {"store", "delete"} /\ ret.outcome = "True") =>
        DiskMatchesMemory

\* C9: a store_document_chunks call that fails on the embeddings' dimension
\* leaves the metadata table, the document table, the index and both files as
\* they were.
C9_DimensionErrorChangesNothing ==
    [][(ret'.op = "store" /\ ret'.outcome = "raise") =>
           UNCHANGED <<index, metadata, doc_chunks, disk_index,
                       disk_metadata>>]_vars

\* C10 as stated: whenever a list of document ids is passed to search, the
\* empty list included, every result's document_id is in the list.
C10_ResultsWithinFilter ==
    (ret.op = "search" /\ ret.document_ids.given) =>
        \A i \in 1..Len(ret.value) :
            ret.value[i].document_id \in ret.document_ids.ids

\* C10 amended: whenever a non-empty list of document ids is passed to
\* search, every result's document_id is in the list.
C10_ResultsWithinNonEmptyFilter ==
    (ret.op = "search" /\ ret.document_ids.given
        /\ ret.document_ids.ids # {}) =>
        \A i \in 1..Len(ret.value) :
            ret.value[i].document_id \in ret.document_ids.ids

\* C10 witness: a filtered search returns a chunk while the store also holds
\* a chunk of a document outside the filter.
C10_Witness ==
    /\ ret.op = "search"
    /\ ret.document_ids.given
    /\ ret.document_ids.ids # {}
    /\ ret.value # <<>>
    /\ \E i \in 1..Len(metadata) :
          metadata[i].document_id \notin ret.document_ids.ids

\* the stored entries of the allowed documents whose own vector is similar
\* enough to q
Eligible(md, q, document_ids, similarity_threshold) ==
    {i \in 1..Len(md) :
        /\ md[i].document_id \in document_ids.ids
        /\ FracGE(Similarity(SqDist(q, added[md[i].chunk_id].embedding)),
                  similarity_threshold)}

\* C11: a search with a document filter returns min(limit, E) results, E the
\* number of stored entries of the allowed documents that meet the threshold.
C11_FilteredSearchFillsLimit ==
    (ret.op = "search" /\ ret.document_ids.given
        /\ ret.document_ids.ids # {}) =>
        Len(ret.value) =
            Min(ret.limit,
                Cardinality(Eligible(metadata, ret.query_embedding,
                                     ret.document_ids,
                                     ret.similarity_threshold)))

\* C12: the similarity scores of a search result are non-increasing from the
\* first result to the last.
C12_ResultsRanked ==
    ret.op = "search" =>
        \A i, j \in 1..Len(ret.value) :
            i < j => FracGE(ret.value[i].similarity_score,
                            ret.value[j].similarity_score)

\* C12 witness: a search returns two results with different scores.
C12_Witness ==
    /\ ret.op = "search"
    /\ Len(ret.value) >= 2
    /\ ret.value[1].similarity_score # ret.value[2].similarity_score

\* the vectors of the index at most as far from q as v
NotFarther(vecs, q, v) ==
    {p \in 1..Len(vecs) : SqDist(q, vecs[p]) <= SqDist(q, v)}

\* C13: a stored entry that passes the document filter and whose vector is
\* among the k nearest to the query is returned if its similarity meets the
\* threshold, and no returned entry has a similarity below the threshold.
C13_ReturnedIffMeetsThreshold ==
    ret.op = "search" =>
        LET q == ret.query_embedding
            k == Min(ret.limit, Len(index.vecs))
            returned == {ret.value[i].chunk_id : i \in 1..Len(ret.value)}
        IN  \A i \in 1..Len(metadata) :
                LET v == added[metadata[i].chunk_id].embedding
                    meets == FracGE(Similarity(SqDist(q, v)),
                                    ret.similarity_threshold)
                IN  /\ (/\ ~ExcludedByFilter(ret.document_ids,
                                             metadata[i].document_id)
                        /\ Cardinality(NotFarther(index.vecs, q, v)) <= k
                        /\ meets)
                       => metadata[i].chunk_id \in returned
                    /\ metadata[i].chunk_id \in returned => meets

\* C14: a search returns at most min(limit, number of stored vectors) results,
\* and the empty list on a store without vectors.
C14_SearchClampedToIndexSize ==
    ret.op = "search" =>
        /\ Len(ret.value) <= Min(ret.limit, Len(index.vecs))
        /\ (~index.exists \/ Len(index.vecs) = 0) => ret.value = <<>>

\* C14 witness: a search asks for more results than there are vectors and
\* returns one result per vector.
C14_Witness ==
    /\ ret.op = "search"
    /\ ret.limit > Len(index.vecs)
    /\ Len(index.vecs) >= 1
    /\ Len(ret.value) = Len(index.vecs)

\* the chunks stored for document d that are still in the metadata table
LiveChunks(d) ==
    {metadata[i].chunk_id : i \in {j \in 1..Len(metadata) :
                                      added[metadata[j].chunk_id].document_id = d}}

GetReturnsLiveChunksInOrder ==
    ret.op = "get" =>
        /\ {ret.value[i].chunk_id : i \in 1..Len(ret.value)} =
               LiveChunks(ret.document_id)
        /\ Len(ret.value) = Cardinality(LiveChunks(ret.document_id))
        /\ \A i, j \in 1..Len(ret.value) :
               i < j => ret.value[i].chunk_index <= ret.value[j].chunk_index

DeleteOfUnknownChangesNothing ==
    (ret = Idle /\ ret'.op = "delete"
        /\ doc_chunks[ret'.document_id] = <<>>) =>
        /\ ret'.outcome = "True"
        /\ UNCHANGED <<index, metadata, doc_chunks, disk_index, disk_metadata>>

\* C15: get_document_chunks(d) returns exactly the live chunks of d in
\* non-decreasing chunk_index order (the empty list for an unknown d), and
\* delete_document_chunks on an unknown id returns normally and leaves the
\* tables, the index and both files unchanged.
C15_GetSortedDeleteUnknownNoop ==
    /\ []GetReturnsLiveChunksInOrder
    /\ [][DeleteOfUnknownChangesNothing]_vars

\* C15 witness: after a delete of a document that was never stored,
\* get_document_chunks returns two chunks in another order than they were
\* stored in.
C15_Witness ==
    /\ ret.op = "get"
    /\ Len(ret.value) = 2
    /\ ret.value[1].chunk_id > ret.value[2].chunk_id
    /\ ret.value[1].chunk_index < ret.value[2].chunk_index
    /\ \E d \in deleted : \A c \in 1..Len(added) : added[c].document_id # d

\* C16: the chunk_index values of one chunk_text call are 0, 1, ..., n-1 in
\* emission order, and every chunk's chunk_size field is the length of its
\* chunk_text.
C16_ChunkIndexContiguous ==
    chunker.state = "done" =>
        \A i \in 1..Len(chunker.chunks) :
            /\ chunker.chunks[i].chunk_index = i - 1
            /\ chunker.chunks[i].chunk_size = Len(chunker.chunks[i].chunk_text)

\* C16 witness: a chunk_text call that returned at least three chunks.
C16_Witness ==
    /\ chunker.state = "done"
    /\ Len(chunker.chunks) >= 3

\* C17: no ChunkingService exists with overlap_size >= chunk_size: the
\* constructor rejects such a pair.
C17_InvalidOverlapRejected ==
    chunker.state # "unused" => chunker.overlap_size < chunker.chunk_size

IsBlank(text) == \A i \in 1..Len(text) : IsSpace(text[i])

\* C18: chunk_text returns the empty list for the empty string and for a
\* string of whitespace only, and for every string it has a list of chunks
\* to return.
C18_BlankTextGivesNoChunks ==
    /\ (chunker.state = "done" /\ IsBlank(chunker.text)) =>
           chunker.chunks = <<>>
    /\ chunker.state = "ready" =>
           Len(ChunkData(chunker.text, chunker.document_id,
                         chunker.chunk_size, chunker.overlap_size)) >= 0

\* C18 witness: chunk_text has returned for a text of several blanks.
C18_Witness ==
    /\ chunker.state = "done"
    /\ Len(chunker.text) >= 2
    /\ IsBlank(chunker.text)

\* C19: when _split_long_sentence splits a sentence longer than chunk_size,
\* every piece is at most chunk_size long and every word longer than
\* chunk_size gives the piece made of its first chunk_size characters.
C19_LongWordsTruncated ==
    chunker.state = "done" =>
        LET sentences == split_into_sentences(clean_text(chunker.text))
        IN  \A s \in 1..Len(sentences) :
                Len(sentences[s]) > chunker.chunk_size =>
                    LET pieces == split_long_sentence(sentences[s],
                                                      chunker.chunk_size)
                        words == Words(sentences[s])
                    IN  /\ \A p \in 1..Len(pieces) :
                               Len(pieces[p].text) <= chunker.chunk_size
                        /\ \A w \in 1..Len(words) :
                               Len(words[w]) > chunker.chunk_size =>
                                   \E p \in 1..Len(pieces) :
                                       pieces[p].text =
                                           SubSeq(words[w], 1,
                                                  chunker.chunk_size)

\* C20: when the embedding of a file's chunks has failed, store_document_chunks
\* is never called for that file and the chunk table holds no chunk of it.
C20_EmbeddingFailureStoresNothing ==
    \A f \in ingest.embed_failed :
        /\ f \notin ingest.store_calls
        /\ \A r \in 1..Len(ingest.rows) : ingest.rows[r].metadata # f

\* C20 witness: the embedding of a file has failed after one of its chunks
\* was embedded, while the chunk table holds the chunks of an earlier file.
C20_Witness ==
    /\ ingest.call.pc = "raised"
    /\ ingest.call.file_id \in ingest.embed_failed
    /\ ingest.call.embeddings # <<>>
    /\ ingest.rows # <<>>

\* C21: when the embedding provider fails during process_document, the error
\* the caller of process_document receives is the provider's error itself,
\* not another error that replaces or wraps it.
C21_ProviderErrorUnchanged ==
    (ingest.call.pc = "raised"
        /\ ingest.call.file_id \in ingest.embed_failed) =>
        ingest.call.error = <<"provider error">>

\* a caller is inside a mutation: between its first change of the tables and
\* the end of its second file write
InMutation(k) == callers[k].pc \in {"add", "write_index", "write_metadata"}

MutationsExclusive ==
    \A j, k \in Callers : j # k => ~(InMutation(j) /\ InMutation(k))

ReadsNeverTorn ==
    \A k \in Callers :
        callers[k].op \in {"search", "get"} => ~callers[k].saw_torn

\* C22: no two callers are inside a mutation of the store at the same time,
\* and no search or get reads the tables while the metadata of a store call
\* is in place and its vectors are not.
C22_MutationsSerialized ==
    /\ MutationsExclusive
    /\ ReadsNeverTorn

\* C23: every chunk_id listed in the document table is a key of the metadata
\* table.
C23_DocChunksWithinMetadata ==
    \A d \in Docs :
        \A c \in Range(doc_chunks[d]) :
            \E i \in 1..Len(metadata) : metadata[i].chunk_id = c

\* C23 witness: a store call has failed after it listed its chunks in both
\* tables, on a store that had deleted a document before.
C23_Witness ==
    /\ ret.op = "store"
    /\ ret.outcome = "raise"
    /\ ret.n > 0
    /\ doc_chunks[ret.document_id] # <<>>
    /\ deleted # {}

\* C24: when an artifact of the directory cannot be read, constructing the
\* store fails: a construction that completed did not meet an unreadable
\* metadata.json, and it loaded both artifacts or neither, never the vectors
\* without the metadata or the metadata without the vectors.
C24_UnreadableArtifactFailsConstruction ==
    ret.op = "init" =>
        /\ disk_metadata.state # "corrupt"
        /\ index.exists <=> (disk_metadata.state = "ok")

\* a newline of the text that has a non-whitespace character somewhere before
\* it and somewhere after it, so that trimming cannot remove it
InnerNewline(text) ==
    \E i \in 1..Len(text) :
        /\ text[i] = "\n"
        /\ \E j \in 1..(i - 1) : ~IsSpace(text[j])
        /\ \E k \in (i + 1)..Len(text) : ~IsSpace(text[k])

NoAdjacentBlanks(t) ==
    \A i \in 1..(Len(t) - 1) : ~(t[i] = " " /\ t[i + 1] = " ")

Trimmed(t) == t = <<>> \/ (~IsSpace(t[1]) /\ ~IsSpace(t[Len(t)]))

\* C25 as stated: the cleaned text has every run of spaces and tabs as one
\* space, keeps the newlines between words as newlines, at most two in a row,
\* and is trimmed.
C25_NewlinesKept ==
    chunker.state = "cleaned" =>
        /\ \A i \in 1..Len(chunker.cleaned) : chunker.cleaned[i] # "\t"
        /\ NoAdjacentBlanks(chunker.cleaned)
        /\ InnerNewline(chunker.text) =>
               \E i \in 1..Len(chunker.cleaned) : chunker.cleaned[i] = "\n"
        /\ \A i \in 1..(Len(chunker.cleaned) - 2) :
               ~(/\ chunker.cleaned[i] = "\n"
                 /\ chunker.cleaned[i + 1] = "\n"
                 /\ chunker.cleaned[i + 2] = "\n")
        /\ Trimmed(chunker.cleaned)

\* C25, amended: _clean_text turns every run of whitespace, of spaces, tabs
\* and newlines alike, into one space and trims the ends: the cleaned text
\* holds the words of the raw text in order, single spaces between them, and
\* no tab and no newline.
C25_WhitespaceRunsBecomeOneSpace ==
    chunker.state = "cleaned" =>
        /\ \A i \in 1..Len(chunker.cleaned) :
               chunker.cleaned[i] \notin {"\t", "\n"}
        /\ NoAdjacentBlanks(chunker.cleaned)
        /\ Trimmed(chunker.cleaned)
        /\ Words(chunker.cleaned) = Words(chunker.text)

\* a raw text with a newline between two words, a tab and blanks at its ends
C25_Witness ==
    /\ chunker.state = "cleaned"
    /\ InnerNewline(chunker.text)
    /\ \E i \in 1..Len(chunker.text) : chunker.text[i] = "\t"
    /\ IsSpace(chunker.text[1])
    /\ Len(Words(chunker.cleaned)) >= 2

\* C26: search_similar_chunks, get_document_chunks and get_chunk_statistics
\* are read-only: a step that is one of these calls leaves the metadata
\* table, the document table, the index and both files as they were.
C26_ReadsChangeNothing ==
    [][ret'.op \in {"search", "get", "stats"} =>
           UNCHANGED <<index, metadata, doc_chunks, disk_index,
                       disk_metadata>>]_vars

\* get_document_chunks has returned the two chunks of a stored document
C26_Witness ==
    /\ ret.op = "get"
    /\ Len(ret.value) >= 2
    /\ Len(doc_chunks[ret.document_id]) >= 2
    /\ disk_metadata.state = "ok"

\* C27: the document_id recorded for a stored chunk is the document_id
\* argument of the call that stored it, whatever the chunk's own metadata map
\* holds, and hence it is the key under which the chunk_id is listed in the
\* document table.
C27_MetadataKeepsArgument ==
    \A i \in 1..Len(metadata) :
        /\ metadata[i].document_id = added[metadata[i].chunk_id].document_id
        /\ \E d \in Docs :
               /\ metadata[i].document_id = d
               /\ metadata[i].chunk_id \in Range(doc_chunks[d])

\* w can be obtained from v by leaving elements out
RECURSIVE IsSubsequence(_, _)
IsSubsequence(w, v) ==
    IF w = <<>> THEN TRUE
    ELSE IF v = <<>> THEN FALSE
    ELSE IF Head(w) = Head(v) THEN IsSubsequence(Tail(w), Tail(v))
    ELSE IsSubsequence(w, Tail(v))

\* the whitespace-delimited words of the chunks, chunk after chunk
RECURSIVE ChunkWords(_)
ChunkWords(chunks) ==
    IF chunks = <<>> THEN <<>>
    ELSE Words(Head(chunks).chunk_text) \o ChunkWords(Tail(chunks))

\* the words of the cleaned text that fit a chunk
FittingWords(text, chunk_size) ==
    SelectSeq(Words(clean_text(text)), LAMBDA w : Len(w) <= chunk_size)

\* C28: chunking loses no text other than by truncation: the words of the
\* cleaned text that are no longer than chunk_size each occur whole, as words
\* of the emitted chunks, and in their original order across the chunks.
C28_NoWordLost ==
    chunker.state = "done" =>
        LET fitting == FittingWords(chunker.text, chunker.chunk_size)
            emitted == ChunkWords(chunker.chunks)
        IN  /\ \A i \in 1..Len(fitting) : fitting[i] \in Range(emitted)
            /\ IsSubsequence(fitting, emitted)

\* a long sentence split word by word, one word truncated, with two
\* different words that fit a chunk
C28_Witness ==
    /\ chunker.state = "done"
    /\ Len(chunker.chunks) >= 2
    /\ \E i \in 1..Len(chunker.chunks) : chunker.chunks[i].via = "truncate"
    /\ \E i \in 1..Len(chunker.chunks) : chunker.chunks[i].via = "words"
    /\ LET fitting == FittingWords(chunker.text, chunker.chunk_size)
       IN  Len(fitting) >= 2 /\ fitting[1] # fitting[2]

\* C29: whenever _ensure_initialized has returned without raising, in a
\* first call or after an earlier initialization failed, document_processor,
\* chunking_service, gemini_client and vector_store are all set.
C29_EnsuredMeansInitialized ==
    ingest.call.ensured =>
        /\ ingest.service.document_processor
        /\ ingest.service.chunking_service
        /\ ingest.service.gemini_client
        /\ ingest.service.vector_store

\* C30: chunk_text terminates for every text and every pair of integer sizes:
\* the body of the sentence loop has run once for each sentence consumed and
\* never more often than there are sentences, and when the loop is left every
\* sentence is consumed and the chunks emitted are no more than the sentences
\* plus the words of the cleaned text.
C30_ChunkTextTerminates ==
    /\ chunker.state \in {"looping", "exited"} =>
           /\ chunker.iterations = chunker.sentence_index
           /\ chunker.iterations <= Len(chunker.sentences)
    /\ chunker.state = "exited" =>
           /\ chunker.sentence_index = Len(chunker.sentences)
           /\ Len(chunker.chunks) <=
                  Len(chunker.sentences)
                      + Len(Words(clean_text(chunker.text)))

\* the loop is left after three chunks of two or more sentences, chunked with
\* an overlap_size that is not smaller than chunk_size
C30_Witness ==
    /\ chunker.state = "exited"
    /\ chunker.overlap_size >= chunker.chunk_size
    /\ chunker.chunk_size >= 1
    /\ Len(chunker.sentences) >= 2
    /\ Len(chunker.chunks) >= 3
    /\ \E i \in 1..Len(chunker.chunks) : chunker.chunks[i].via = "overlap"

\* the step-by-step loop and the function ChunksFrom give the same chunks
LoopAgreesWithChunksFrom ==
    chunker.state = "exited" =>
        chunker.chunks = create_chunks_with_overlap(
                             chunker.sentences, chunker.chunk_size,
                             chunker.overlap_size)

====
